---- MODULE Spec2Model ----
(***************************************************************************)
(* IntelliRAG retrieval/indexing core: VectorStore (file_exists, add,      *)
(* query), RAGRetriever.retrieve and the indexing step of pipeline.main.   *)
(*                                                                         *)
(* The ChromaDB collection is a set of records keyed by id.  Embeddings    *)
(* are unit vectors at multiples of 90 degrees (0..3), so that the cosine  *)
(* distance of the collection ("hnsw:space": "cosine") is an exact integer *)
(* 0, 1 or 2 and the similarity 1 - distance is 1, 0 or -1.                *)
(***************************************************************************)
EXTENDS Integers, Sequences, FiniteSets, TLC

VARIABLES chunks, collection, nextUuid, last, query, results, run, files, history

vars == <<chunks, collection, nextUuid, last, query, results, run, files, history>>

\* ------------------------------------------------------------------ bounds
\* Chunk objects the caller of VectorStore.add holds.
MaxChunks == 3
\* Largest batch_size passed to VectorStore.add.
MaxBatch == 2
\* Largest top_k passed to query / retrieve.
MaxTopK == 2
\* Longest raw response of the index in the retrieve-only specification.
MaxRaw == 2
\* Pipeline runs, and chunks the splitter makes of one file.
MaxRuns == 3
MaxFileChunks == 3
\* Stand-in for the default batch_size=5000 that pipeline.main relies on.
DefaultBatchSize == 2

\* ------------------------------------------------------------ value spaces
\* "id" not in c.metadata
NoId == 0
\* The id the caller put on its i-th chunk before any add (the ids a caller
\* gives are unique per chunk; the uuids add draws are 1, 2, ...).
CallerId(i) == 0 - i
\* Python's None, and None where a float is expected (a distance, a score)
None == "None"
NoneFloat == 99
\* metadata without a "source_file" key
NoKey == "<no source_file>"
FileNames == {"a.txt", "b.txt"}
\* Query strings: empty, whitespace-only, and two with content.
Queries == {"", " ", "cat", "car"}
WhitespaceOnly == {" "}
Vec == 0..3

\* What a call below retrieve may raise: the embedding call, or the index
\* (a storage fault, or any other error of the query).
EmbedFaults == {"GenerationFailed"}
QueryFaults == {"StorageUnavailable", "InvalidDimensionException"}
Faults == {None} \cup EmbedFaults \cup QueryFaults

Min(a, b) == IF a <= b THEN a ELSE b

\* --------------------------------------------------- embeddings.py
\* SentenceTransformer.encode: a fixed deterministic map from text to vector.
Encode(text) ==
    CASE text = "cat" -> 0
      [] text = "car" -> 1
      [] text = " " -> 2
      [] OTHER -> 3

\* EmbeddingManager.generate_embeddings(texts): one row per text, in order;
\* np.zeros((0, dim)) for an empty list.
generate_embeddings(texts) ==
    IF Len(texts) = 0 THEN <<>> ELSE [i \in 1..Len(texts) |-> Encode(texts[i])]

\* Cosine distance of two unit vectors at angles 90*u and 90*v: 1 - cos.
CosineDistance(u, v) ==
    LET d == (u - v + 4) % 4
    IN  CASE d = 0 -> 0
          [] d = 2 -> 2
          [] OTHER -> 1

\* ------------------------------------------------------- python helpers
\* s[i:end] with 0-based i, end clipped to len(s)
Slice(s, i, end) == SubSeq(s, i + 1, Min(end, Len(s)))

\* range(0, total, step) as the increasing sequence of its values
RangeStep(total, step) ==
    [j \in 1..((total + step - 1) \div step) |-> (j - 1) * step]

\* bool(x) is False for the empty string
Falsy(s) == s = ""

\* ------------------------------------------------ chromadb Collection
CollectionIds(coll) == {r.id : r \in coll}

\* Collection.get(where={"source_file": filename}): the matching records.
ChromaGet(coll, filename) ==
    {r \in coll : r.metadata.source_file = filename}

\* Collection.add validation: the four lists are non-empty, of one length,
\* and the ids of one call are pairwise different.
ChromaAddRejects(call) ==
    \/ Len(call.ids) = 0
    \/ Len(call.documents) # Len(call.ids)
    \/ Len(call.embeddings) # Len(call.ids)
    \/ Len(call.metadatas) # Len(call.ids)
    \/ \E i, j \in 1..Len(call.ids) : i # j /\ call.ids[i] = call.ids[j]

\* Collection.add: inserts the records of the call; a record whose id is
\* already stored is left as it is.
ChromaAdd(coll, call) ==
    coll \cup
    {[id |-> call.ids[i], document |-> call.documents[i],
      embedding |-> call.embeddings[i], metadata |-> call.metadatas[i]] :
        i \in {k \in 1..Len(call.ids) : call.ids[k] \notin CollectionIds(coll)}}

\* The stored records nearest to qvec.
Nearest(coll, qvec) ==
    {r \in coll : \A o \in coll :
        CosineDistance(qvec, r.embedding) <= CosineDistance(qvec, o.embedding)}

\* Collection.query(query_embeddings=[q], n_results=k): the min(k, count)
\* nearest stored records, nearest first; records at equal distance come in
\* any order.  The set of the possible result lists.
RECURSIVE ChromaQuery(_, _, _)
ChromaQuery(coll, qvec, k) ==
    IF k = 0 \/ coll = {}
    THEN {<<>>}
    ELSE UNION {{<<r>> \o rest : rest \in ChromaQuery(coll \ {r}, qvec, k - 1)} :
                   r \in Nearest(coll, qvec)}

\* One of the possible result lists of Collection.query.
RECURSIVE ChromaQueryOne(_, _, _)
ChromaQueryOne(coll, qvec, k) ==
    IF k = 0 \/ coll = {}
    THEN <<>>
    ELSE LET r == CHOOSE x \in Nearest(coll, qvec) : TRUE
         IN  <<r>> \o ChromaQueryOne(coll \ {r}, qvec, k - 1)

\* The response dict of Collection.query for one query vector.
QueryResponse(s, qvec) ==
    [documents |-> <<[i \in 1..Len(s) |-> s[i].document]>>,
     metadatas |-> <<[i \in 1..Len(s) |-> s[i].metadata]>>,
     distances |-> <<[i \in 1..Len(s) |-> CosineDistance(qvec, s[i].embedding)]>>]

\* ------------------------------------------------------ vectorstore.py
\* Mutant of file_exists: `> 1` where the code compares `> 0`.
VectorStore_file_existsOffByOne(coll, filename) ==
    IF Falsy(filename)
    THEN [ret |-> FALSE, getCalls |-> 0]
    ELSE [ret |-> Cardinality(ChromaGet(coll, filename)) > 1, getCalls |-> 1]

\* VectorStore.file_exists(filename): the result and the number of
\* collection.get calls it issued.
VectorStore_file_exists(coll, filename) ==
    IF Falsy(filename)
    THEN [ret |-> FALSE, getCalls |-> 0]
    ELSE [ret |-> Cardinality(ChromaGet(coll, filename)) > 0, getCalls |-> 1]

\* Mutant of the first loop: the id is drawn for every chunk, the
\* `"id" not in c.metadata` test being lost.
AssignIdsAlways(cs, next) ==
    [j \in 1..Len(cs) |-> [cs[j] EXCEPT !.metadata.id = next + (j - 1)]]

\* VectorStore.add, first loop: a chunk without metadata["id"] gets
\* str(uuid.uuid4()), written onto its own metadata.  The uuids drawn in one
\* call are next, next + 1, ... in chunk order.
AssignIds(cs, next) ==
    [j \in 1..Len(cs) |->
        IF cs[j].metadata.id = NoId
        THEN [cs[j] EXCEPT !.metadata.id =
                 next + Cardinality({i \in 1..(j - 1) : cs[i].metadata.id = NoId})]
        ELSE cs[j]]

UuidsDrawn(cs) == Cardinality({i \in 1..Len(cs) : cs[i].metadata.id = NoId})

\* Mutant of the batch: the slices end one position early.
BatchCallShort(data, i, batch_size) ==
    LET end == i + batch_size - 1
    IN  [ids |-> Slice(data.ids, i, end),
         documents |-> Slice(data.docs, i, end),
         embeddings |-> Slice(data.vectors, i, end),
         metadatas |-> Slice(data.metadatas, i, end)]

\* The batch of one loop iteration: the four slices [i:end].
BatchCall(data, i, batch_size) ==
    LET end == i + batch_size
    IN  [ids |-> Slice(data.ids, i, end),
         documents |-> Slice(data.docs, i, end),
         embeddings |-> Slice(data.vectors, i, end),
         metadatas |-> Slice(data.metadatas, i, end)]

\* Mutant of the second loop: a failing batch is caught and skipped, and the
\* loop goes on with the next one.
RECURSIVE InsertBatchesSkipFailed(_, _, _, _, _, _)
InsertBatchesSkipFailed(coll, calls, starts, data, batch_size, faultAt) ==
    IF starts = <<>>
    THEN [collection |-> coll, addCalls |-> calls, raised |-> None,
          failed |-> IF faultAt \in 1..Len(calls) THEN faultAt ELSE 0]
    ELSE LET call == BatchCall(data, Head(starts), batch_size)
             issued == Append(calls, call)
         IN  IF ChromaAddRejects(call) \/ faultAt = Len(issued)
             THEN InsertBatchesSkipFailed(coll, issued, Tail(starts), data, batch_size, faultAt)
             ELSE InsertBatchesSkipFailed(ChromaAdd(coll, call), issued, Tail(starts),
                                          data, batch_size, faultAt)

\* VectorStore.add, second loop, over the remaining values of
\* range(0, total, batch_size).  An exception of collection.add (a rejected
\* call, or a fault of the store at batch faultAt) leaves the loop and the
\* method; nothing catches it.
RECURSIVE InsertBatches(_, _, _, _, _, _)
InsertBatches(coll, calls, starts, data, batch_size, faultAt) ==
    IF starts = <<>>
    THEN [collection |-> coll, addCalls |-> calls, raised |-> None, failed |-> 0]
    ELSE LET call == BatchCall(data, Head(starts), batch_size)
             issued == Append(calls, call)
         IN  IF ChromaAddRejects(call)
             THEN [collection |-> coll, addCalls |-> issued,
                   raised |-> "ValueError", failed |-> Len(issued)]
             ELSE IF faultAt = Len(issued)
             THEN [collection |-> coll, addCalls |-> issued,
                   raised |-> "StorageFault", failed |-> Len(issued)]
             ELSE InsertBatches(ChromaAdd(coll, call), issued, Tail(starts),
                                data, batch_size, faultAt)

\* VectorStore.add(chunks, vectors, batch_size)
VectorStore_add(cs, vectors, batch_size, coll, next, faultAt) ==
    LET withIds == AssignIds(cs, next)
        data == [ids |-> [j \in 1..Len(cs) |-> withIds[j].metadata.id],
                 docs |-> [j \in 1..Len(cs) |-> withIds[j].page_content],
                 metadatas |-> [j \in 1..Len(cs) |-> withIds[j].metadata],
                 vectors |-> vectors]
        total == Len(cs)
        done == InsertBatches(coll, <<>>, RangeStep(total, batch_size), data,
                              batch_size, faultAt)
    IN  [chunks |-> withIds, nextUuid |-> next + UuidsDrawn(cs),
         collection |-> done.collection, addCalls |-> done.addCalls,
         raised |-> done.raised, failed |-> done.failed]

\* Mutant of query: the output list is built back to front.
VectorStore_queryReversed(response) ==
    LET docs == response.documents[1]
        metas == response.metadatas[1]
        n == Min(Len(docs), Len(metas))
    IN  [i \in 1..n |-> [content |-> docs[n + 1 - i], metadata |-> metas[n + 1 - i]]]

\* VectorStore.query, lines 105-109: zip of the documents and the metadatas.
VectorStore_query(response) ==
    LET docs == response.documents[1]
        metas == response.metadatas[1]
    IN  [i \in 1..Min(Len(docs), Len(metas)) |->
            [content |-> docs[i], metadata |-> metas[i]]]

\* Mutant of the hit list: rank is the 0-based position.
BuildHitsZeroBased(response) ==
    LET docs == response.documents[1]
        metadatas == response.metadatas[1]
        distances == response.distances[1]
        n == Min(Len(docs), Min(Len(metadatas), Len(distances)))
    IN  [p \in 1..n |->
            LET i == p - 1
            IN  [content |-> docs[p],
                 metadata |-> metadatas[p],
                 score |-> IF distances[p] # NoneFloat THEN 1 - distances[p] ELSE NoneFloat,
                 rank |-> i]]

\* -------------------------------------------------------- retriever.py
\* RAGRetriever.retrieve, lines 45-58: zip of documents, metadatas and
\* distances; enumerate gives i from 0 and rank is i + 1.
BuildHits(response) ==
    LET docs == response.documents[1]
        metadatas == response.metadatas[1]
        distances == response.distances[1]
        n == Min(Len(docs), Min(Len(metadatas), Len(distances)))
    IN  [p \in 1..n |->
            LET i == p - 1
            IN  [content |-> docs[p],
                 metadata |-> metadatas[p],
                 score |-> IF distances[p] # NoneFloat THEN 1 - distances[p] ELSE NoneFloat,
                 rank |-> i + 1]]

\* RAGRetriever.retrieve(query, top_k) against an index that answers
\* `response`; fault is the exception (or None) that generate_embeddings
\* or collection.query raises in this call.  retrieve
\* has no try/except: what is raised below it leaves it.
retrieve(q, response, fault) ==
    IF Falsy(q)
    THEN [ret |-> <<>>, raised |-> None, embedCalls |-> 0, queryCalls |-> 0]
    ELSE IF fault \in EmbedFaults
    THEN [ret |-> <<>>, raised |-> fault, embedCalls |-> 1, queryCalls |-> 0]
    ELSE IF fault \in QueryFaults
    THEN [ret |-> <<>>, raised |-> fault, embedCalls |-> 1, queryCalls |-> 1]
    ELSE [ret |-> BuildHits(response), raised |-> None, embedCalls |-> 1, queryCalls |-> 1]

\* ------------------------------------------------------------- the state
\* page_content of the i-th chunk object of the caller
TextAt(i) == IF i % 2 = 1 THEN "cat" ELSE "car"

\* The chunk objects a caller holds: the loader stamps source_file on the
\* documents of a file (odd and even positions stand for two files, or for
\* documents built without the key), and the first callerIds of them carry an
\* id the caller chose.
ChunkPool(f1, f2, callerIds) ==
    [i \in 1..MaxChunks |->
        [page_content |-> TextAt(i),
         metadata |-> [source_file |-> IF i % 2 = 1 THEN f1 ELSE f2,
                       id |-> IF i <= callerIds THEN CallerId(i) ELSE NoId]]]

EmptyResponse == [documents |-> <<<<>>>>, metadatas |-> <<<<>>>>, distances |-> <<<<>>>>]

\* What the last call was, what it was given, what it did and returned.
NoCall ==
    [op |-> "none", arg |-> "", n |-> 0, nvec |-> 0, batch_size |-> 0, top_k |-> 0,
     qvec |-> 0, ret |-> <<>>, raised |-> None, failed |-> 0, addCalls |-> <<>>,
     getCalls |-> 0, queryCalls |-> 0, embedCalls |-> 0, fault |-> None,
     new_chunks |-> <<>>, hits |-> 0, indexEmbedCalls |-> 0]

Init ==
    /\ \E f1 \in FileNames \cup {NoKey}, f2 \in FileNames \cup {NoKey}, callerIds \in {0, 1} :
          chunks = ChunkPool(f1, f2, callerIds)
    /\ collection = {}
    /\ nextUuid = 1
    /\ last = NoCall
    /\ query = ""
    /\ results = EmptyResponse
    /\ run = 0
    /\ files = <<>>
    /\ history = {}

\* vectorstore.add(chunks[:n], vectors[:nvec], batch_size), the vectors being
\* the embeddings of the first nvec chunk texts.
Add(n, nvec, batch_size, faultAt) ==
    \E cs \in {SubSeq(chunks, 1, n)} :
    \E vectors \in {generate_embeddings([j \in 1..nvec |-> chunks[j].page_content])} :
    \E r \in {VectorStore_add(cs, vectors, batch_size, collection, nextUuid, faultAt)} :
        /\ chunks' = [j \in 1..MaxChunks |-> IF j <= n THEN r.chunks[j] ELSE chunks[j]]
        /\ nextUuid' = r.nextUuid
        /\ collection' = r.collection
        /\ last' = [NoCall EXCEPT !.op = "add", !.n = n, !.nvec = nvec,
                                  !.batch_size = batch_size, !.addCalls = r.addCalls,
                                  !.raised = r.raised, !.failed = r.failed]
        /\ UNCHANGED <<query, results, run, files, history>>

FileExists(filename) ==
    LET r == VectorStore_file_exists(collection, filename)
    IN  /\ last' = [NoCall EXCEPT !.op = "file_exists", !.arg = filename,
                                  !.ret = r.ret, !.getCalls = r.getCalls]
        /\ UNCHANGED <<chunks, collection, nextUuid, query, results, run, files, history>>

Query(qvec, top_k) ==
    \E s \in ChromaQuery(collection, qvec, top_k) :
        /\ last' = [NoCall EXCEPT !.op = "query", !.qvec = qvec, !.top_k = top_k,
                                  !.queryCalls = 1,
                                  !.ret = VectorStore_query(QueryResponse(s, qvec))]
        /\ UNCHANGED <<chunks, collection, nextUuid, query, results, run, files, history>>

Retrieve(q, top_k, fault) ==
    LET qvec == generate_embeddings(<<q>>)[1]
    IN  \E s \in ChromaQuery(collection, qvec, top_k) :
            LET r == retrieve(q, QueryResponse(s, qvec), fault)
            IN  /\ last' = [NoCall EXCEPT !.op = "retrieve", !.arg = q, !.top_k = top_k,
                                          !.qvec = qvec, !.ret = r.ret, !.raised = r.raised,
                                          !.fault = fault,
                                          !.embedCalls = r.embedCalls,
                                          !.queryCalls = r.queryCalls]
                /\ UNCHANGED <<chunks, collection, nextUuid, query, results, run, files, history>>

\* The number of batches of an add, as its progress line prints it.
NumBatches(n, batch_size) == ((n - 1) \div batch_size) + 1

\* The store as an indexing client drives it: add and file_exists.
Next ==
    \/ \E n \in 0..MaxChunks, batch_size \in 1..MaxBatch :
          \E nvec \in {n - 1, n, n + 1} \cap 0..MaxChunks, faultAt \in 0..NumBatches(n, batch_size) :
              Add(n, nvec, batch_size, faultAt)
    \/ \E filename \in FileNames \cup {""} : FileExists(filename)

Spec == Init /\ [][Next]_vars

\* The store as a question-answering client drives it: the chunks are
\* indexed (add of aligned chunks and vectors, no fault) and then searched.
NextSearch ==
    \/ \E n \in 1..MaxChunks, batch_size \in 1..MaxBatch : Add(n, n, batch_size, 0)
    \/ \E qvec \in Vec, top_k \in 1..MaxTopK : Query(qvec, top_k)
    \/ \E q \in Queries, top_k \in 1..MaxTopK, fault \in Faults : Retrieve(q, top_k, fault)

SpecSearch == Init /\ [][NextSearch]_vars

\* retrieve against an index whose response is given: the responses are all
\* aligned lists of at most MaxRaw raw results (text, metadata, distance), a
\* distance being 0, 1, 2 or absent.
RawResults ==
    [document : {"cat", "car"},
     metadata : {[source_file |-> f, id |-> 1] : f \in FileNames},
     distance : {0, 1, 2, NoneFloat}]

RawResponses ==
    UNION {{[documents |-> <<[i \in 1..n |-> raw[i].document]>>,
             metadatas |-> <<[i \in 1..n |-> raw[i].metadata]>>,
             distances |-> <<[i \in 1..n |-> raw[i].distance]>>] :
               raw \in [1..n -> RawResults]} : n \in 0..MaxRaw}

InitHits ==
    /\ query \in Queries
    /\ results \in RawResponses
    /\ last = NoCall
    /\ chunks = <<>>
    /\ collection = {}
    /\ nextUuid = 1
    /\ run = 0
    /\ files = <<>>
    /\ history = {}

RetrieveGiven(top_k) ==
    LET r == retrieve(query, results, None)
    IN  /\ last.op = "none"
        /\ last' = [NoCall EXCEPT !.op = "retrieve", !.arg = query, !.top_k = top_k,
                                  !.ret = r.ret, !.raised = r.raised,
                                  !.embedCalls = r.embedCalls, !.queryCalls = r.queryCalls]
        /\ UNCHANGED <<chunks, collection, nextUuid, query, results, run, files, history>>

NextHits == \E top_k \in {MaxRaw} : RetrieveGiven(top_k)

SpecHits == InitHits /\ [][NextHits]_vars

\* --------------------------------------------------------- pipeline.py
\* loader.load_all() and split_documents(): the chunks of a.txt, then those
\* of b.txt, each with the file's name as source_file and no id.  fs[f] is
\* the number of chunks the documents of f split into (0: no such file).
SplitDocuments(fs) ==
    [j \in 1..(fs["a.txt"] + fs["b.txt"]) |->
        [page_content |-> TextAt(j),
         metadata |-> [source_file |-> IF j <= fs["a.txt"] THEN "a.txt" ELSE "b.txt",
                       id |-> NoId]]]

\* c.metadata.get("source_file", "")
SourceFileOf(c) == IF c.metadata.source_file = NoKey THEN "" ELSE c.metadata.source_file

\* Mutant of the filter: every chunk is kept.
NewChunksUnfiltered(cs, coll) == [j \in 1..Len(cs) |-> j]

\* Mutant of the filter: each chunk is tested after the chunks before it have
\* been inserted, so only the first chunk of a file not yet indexed is kept.
NewChunksInterleaved(cs, coll) ==
    LET keep == {j \in 1..Len(cs) :
                    /\ ~VectorStore_file_exists(coll, SourceFileOf(cs[j])).ret
                    /\ \A i \in 1..(j - 1) : SourceFileOf(cs[i]) # SourceFileOf(cs[j])}
        F[j \in 0..Len(cs)] ==
            IF j = 0 THEN <<>>
            ELSE IF j \in keep THEN Append(F[j - 1], j) ELSE F[j - 1]
    IN  F[Len(cs)]

\* new_chunks = [c for c in chunks if not vectorstore.file_exists(...)], as
\* the positions in chunks of the chunks kept, in order; every file_exists
\* is evaluated against the collection as it is before the add.
NewChunks(cs, coll) ==
    LET keep == {j \in 1..Len(cs) : ~VectorStore_file_exists(coll, SourceFileOf(cs[j])).ret}
        F[j \in 0..Len(cs)] ==
            IF j = 0 THEN <<>>
            ELSE IF j \in keep THEN Append(F[j - 1], j) ELSE F[j - 1]
    IN  F[Len(cs)]

\* collection.get calls of the filter: one per chunk with a source_file
GetCallsOfFilter(cs, coll) ==
    Cardinality({j \in 1..Len(cs) : VectorStore_file_exists(coll, SourceFileOf(cs[j])).getCalls = 1})

\* top_k of the example query that ends main
ExampleTopK == 4
ExampleQuery == "What is attention mechanism?"

\* The hits of retriever.retrieve(ExampleQuery, top_k=4) on coll
ExampleHits(coll) ==
    LET qvec == generate_embeddings(<<ExampleQuery>>)[1]
        s == ChromaQueryOne(coll, qvec, ExampleTopK)
    IN  retrieve(ExampleQuery, QueryResponse(s, qvec), None).ret

InitPipeline ==
    /\ files \in [FileNames -> 0..MaxFileChunks]
    /\ collection = {}
    /\ nextUuid = 1
    /\ run = 0
    /\ history = {}
    /\ last = NoCall
    /\ chunks = <<>>
    /\ query = ""
    /\ results = EmptyResponse

\* One run of pipeline.main in a fresh process over the same data directory
\* and the persisted collection.  embedFails: generate_embeddings raises;
\* faultAt: the batch at which the store faults (0: none).  An exception
\* ends the run.  history notes, for every record, the chunk position and
\* the run that inserted it; indexEmbedCalls counts the generate_embeddings
\* calls made for new_chunks, embedCalls those and the example query's.
PipelineRun(embedFails, faultAt) ==
    \E cs \in {SplitDocuments(files)} :
    \E kept \in {NewChunks(cs, collection)} :
    \E new_chunks \in {[j \in 1..Len(kept) |-> cs[kept[j]]]} :
    \E texts \in {[j \in 1..Len(kept) |-> new_chunks[j].page_content]} :
    \E r \in {VectorStore_add(new_chunks, generate_embeddings(texts), DefaultBatchSize,
                              collection, nextUuid, faultAt)} :
    \E call \in {[NoCall EXCEPT !.op = "pipeline", !.n = Len(cs), !.new_chunks = kept,
                                !.getCalls = GetCallsOfFilter(cs, collection)]} :
        /\ run < MaxRuns
        /\ run' = run + 1
        /\ UNCHANGED <<files, chunks, query, results>>
        /\ IF Len(cs) = 0
           THEN /\ last' = [NoCall EXCEPT !.op = "pipeline"]
                /\ UNCHANGED <<collection, nextUuid, history>>
           ELSE IF Len(kept) = 0
           THEN /\ last' = [call EXCEPT !.hits = Len(ExampleHits(collection)),
                                        !.embedCalls = 1, !.queryCalls = 1]
                /\ UNCHANGED <<collection, nextUuid, history>>
           ELSE IF embedFails
           THEN /\ last' = [call EXCEPT !.raised = "GenerationFailed", !.embedCalls = 1,
                                        !.indexEmbedCalls = 1]
                /\ UNCHANGED <<collection, nextUuid, history>>
           ELSE /\ collection' = r.collection
                /\ nextUuid' = r.nextUuid
                /\ history' = history \cup
                      {[id |-> r.chunks[j].metadata.id,
                        source_file |-> r.chunks[j].metadata.source_file,
                        position |-> kept[j], run |-> run + 1] :
                          j \in {k \in 1..Len(kept) :
                                    r.chunks[k].metadata.id \in
                                        CollectionIds(r.collection) \ CollectionIds(collection)}}
                /\ last' = IF r.raised # None
                           THEN [call EXCEPT !.raised = r.raised, !.failed = r.failed,
                                             !.addCalls = r.addCalls, !.embedCalls = 1,
                                             !.indexEmbedCalls = 1]
                           ELSE [call EXCEPT !.addCalls = r.addCalls,
                                             !.hits = Len(ExampleHits(r.collection)),
                                             !.embedCalls = 2, !.queryCalls = 1,
                                             !.indexEmbedCalls = 1]

NextPipeline ==
    \E embedFails \in BOOLEAN,
       faultAt \in 0..NumBatches(files["a.txt"] + files["b.txt"], DefaultBatchSize) :
        PipelineRun(embedFails, faultAt)

SpecPipeline == InitPipeline /\ [][NextPipeline]_vars

\* ================================================================ claims
\* The vectors handed to the last add: the embeddings of the first nvec
\* chunk texts.
LastVectors == generate_embeddings([j \in 1..last.nvec |-> chunks[j].page_content])

\* ceil(n / b) as the least m with m * b >= n
Ceil(n, b) == CHOOSE m \in 0..n : m * b >= n /\ \A m2 \in 0..n : m2 * b >= n => m <= m2

\* C1 (as claimed): an add with len(chunks) # len(vectors) raises before any
\* insertion: it ends in an error, issues no collection.add call and leaves
\* the collection's records as they were.
C1_ShapeMismatchBeforeAnyInsert ==
    [][(last'.op = "add" /\ last'.n # last'.nvec) =>
          /\ last'.raised # None
          /\ Len(last'.addCalls) = 0
          /\ collection' = collection]_vars

\* C2: a successful add of n chunks with batch size b issues ceil(n / b)
\* insertion calls in order; call j carries exactly the ids, texts,
\* metadatas and vectors of positions (j-1)*b+1 .. min(j*b, n), index by index.
C2_ContiguousBatches ==
    (last.op = "add" /\ last.raised = None) =>
        LET n == last.n
            b == last.batch_size
            calls == last.addCalls
        IN  /\ Len(calls) = Ceil(n, b)
            /\ \A j \in 1..Len(calls) :
                  LET lo == (j - 1) * b
                      size == Min(j * b, n) - lo
                  IN  /\ Len(calls[j].ids) = size
                      /\ Len(calls[j].documents) = size
                      /\ Len(calls[j].metadatas) = size
                      /\ Len(calls[j].embeddings) = size
                      /\ (j < Len(calls) => size = b)
                      /\ \A k \in 1..size :
                            /\ calls[j].ids[k] = chunks[lo + k].metadata.id
                            /\ calls[j].documents[k] = chunks[lo + k].page_content
                            /\ calls[j].metadatas[k] = chunks[lo + k].metadata
                            /\ lo + k <= last.nvec
                            /\ calls[j].embeddings[k] = LastVectors[lo + k]

\* C2 witness: three chunks were added in batches of two: calls of 2 and 1.
C2_Witness ==
    /\ last.op = "add" /\ last.raised = None
    /\ last.n = 3 /\ last.batch_size = 2
    /\ Len(last.addCalls) = 2
    /\ Len(last.addCalls[1].ids) = 2 /\ Len(last.addCalls[2].ids) = 1

\* C3: an add that returns normally has every chunk stored under its id.
\* When batch j of an add fails, the failure reaches the caller, batch j is
\* the last one attempted, every record of the batches before j is in the
\* collection, where file_exists and query find it; and no later step
\* removes a record.
C3_PartialPersistence ==
    [][/\ collection \subseteq collection'
       /\ (last'.op = "add" /\ last'.raised = None) =>
             /\ last'.failed = 0
             /\ \A i \in 1..last'.n : chunks'[i].metadata.id \in CollectionIds(collection')
       /\ (last'.op = "add" /\ last'.failed > 0) =>
             /\ last'.raised # None
             /\ Len(last'.addCalls) = last'.failed
             /\ \A j \in 1..(last'.failed - 1) :
                   \A k \in 1..Len(last'.addCalls[j].ids) :
                       LET call == last'.addCalls[j]
                           r == [id |-> call.ids[k], document |-> call.documents[k],
                                 embedding |-> call.embeddings[k],
                                 metadata |-> call.metadatas[k]]
                       IN  /\ r \in collection'
                           /\ r.metadata.source_file # NoKey =>
                                 VectorStore_file_exists(collection', r.metadata.source_file).ret
                           /\ \E s \in ChromaQuery(collection', r.embedding, Cardinality(collection')) :
                                 \E i \in 1..Len(s) : s[i] = r]_vars

\* C3 witness: the second batch of an add failed and the first one's records
\* are stored.
C3_Witness ==
    /\ last.op = "add" /\ last.failed = 2 /\ last.raised # None
    /\ \A k \in 1..Len(last.addCalls[1].ids) :
          last.addCalls[1].ids[k] \in CollectionIds(collection)
    /\ last.n > Cardinality(collection)

\* C4: add gives every chunk that lacked an id a fresh one (not NoId, not the
\* id of another chunk, not an id already stored), writes it onto the chunk,
\* inserts the chunk under it, and never changes an id a chunk already has.
C4_IdAssignedOnce ==
    [][/\ \A i \in 1..MaxChunks :
             chunks[i].metadata.id # NoId => chunks'[i].metadata.id = chunks[i].metadata.id
       /\ last'.op = "add" =>
             /\ \A i \in 1..last'.n :
                   /\ chunks'[i].metadata.id # NoId
                   /\ chunks[i].metadata.id = NoId =>
                         /\ \A j \in (1..MaxChunks) \ {i} :
                               chunks'[j].metadata.id # chunks'[i].metadata.id
                         /\ chunks'[i].metadata.id \notin CollectionIds(collection)
             /\ \A j \in 1..Len(last'.addCalls) :
                   \A k \in 1..Len(last'.addCalls[j].ids) :
                       LET pos == (j - 1) * last'.batch_size + k
                       IN  /\ last'.addCalls[j].ids[k] = chunks'[pos].metadata.id
                           /\ last'.addCalls[j].metadatas[k].id = chunks'[pos].metadata.id]_vars

\* C4 witness: after a second add, a chunk with a caller's id, one whose id
\* an earlier add drew and one whose id this add drew.
C4_Witness ==
    /\ last.op = "add" /\ last.n = 3
    /\ chunks[1].metadata.id = CallerId(1)
    /\ chunks[2].metadata.id = 1
    /\ chunks[3].metadata.id = 2
    /\ Len(last.addCalls) > 0
    /\ Cardinality(collection) = 3

\* C5: file_exists(s) is true iff a stored record has source_file = s; for
\* the empty string it is false without a collection.get call.  With only
\* records of a.txt stored, a.txt exists and b.txt does not.
C5_FileExistsIffRecord ==
    /\ \A s \in FileNames \cup {""} :
          VectorStore_file_exists(collection, s).ret =
              (\E r \in collection : r.metadata.source_file = s)
    /\ VectorStore_file_exists(collection, "").getCalls = 0
    /\ last.op = "file_exists" =>
          /\ last.ret = (\E r \in collection : r.metadata.source_file = last.arg)
          /\ last.arg = "" => (last.ret = FALSE /\ last.getCalls = 0)
    /\ (collection # {} /\ \A r \in collection : r.metadata.source_file = "a.txt") =>
          /\ VectorStore_file_exists(collection, "a.txt").ret
          /\ ~VectorStore_file_exists(collection, "b.txt").ret

\* C5 witness: one record of a.txt is stored and file_exists("a.txt") said so.
C5_Witness ==
    /\ last.op = "file_exists" /\ last.arg = "a.txt" /\ last.ret = TRUE
    /\ Cardinality(collection) = 1
    /\ \A r \in collection : r.metadata.source_file = "a.txt"

\* C6 (as claimed): retrieve with an empty or whitespace-only query returns
\* the empty list with no embedding call and no index query (stated here for
\* the calls in which nothing below retrieve faults).
C6_BlankQueryShortCircuits ==
    (last.op = "retrieve" /\ last.fault = None /\ last.arg \in {""} \cup WhitespaceOnly) =>
        /\ last.ret = <<>>
        /\ last.raised = None
        /\ last.embedCalls = 0
        /\ last.queryCalls = 0

\* C7: for a query with content, retrieve returns one hit per raw result of
\* the index, in the index's order: hit i has the i-th content and metadata,
\* rank i, and score 1 - distance, or none when the distance is absent.
C7_OneHitPerRawResult ==
    (last.op = "retrieve" /\ query \notin {""} \cup WhitespaceOnly) =>
        LET docs == results.documents[1]
            metadatas == results.metadatas[1]
            distances == results.distances[1]
        IN  /\ last.raised = None
            /\ Len(last.ret) = Len(docs)
            /\ \A i \in 1..Len(last.ret) :
                  /\ i <= Len(docs)
                  /\ last.ret[i].content = docs[i]
                  /\ last.ret[i].metadata = metadatas[i]
                  /\ last.ret[i].rank = i
                  /\ last.ret[i].score =
                        (IF distances[i] = NoneFloat THEN NoneFloat ELSE 1 - distances[i])

\* C7 witness: two raw results, the first without a distance, the second at
\* distance 0 and of the same text: two hits, scores none and 1, ranks 1, 2.
C7_Witness ==
    /\ last.op = "retrieve" /\ query = "cat"
    /\ Len(last.ret) = 2
    /\ last.ret[1].score = NoneFloat /\ last.ret[2].score = 1
    /\ last.ret[1].content = last.ret[2].content
    /\ last.ret[1].rank = 1 /\ last.ret[2].rank = 2

\* The stored record a result stands for, and its distance to the query.
StoredRecord(id) == CHOOSE r \in collection : r.id = id
DistanceOf(item) == CosineDistance(last.qvec, StoredRecord(item.metadata.id).embedding)

\* C8: query, and retrieve for a query with content, return min(top_k, count)
\* stored records in non-decreasing distance to the query vector (retrieve:
\* with non-increasing scores 1 - distance), the empty list on an empty
\* collection, and no error.
C8_NearestFirst ==
    ((last.op = "query") \/
     (last.op = "retrieve" /\ last.fault = None /\ last.arg \notin {""} \cup WhitespaceOnly)) =>
        /\ last.raised = None
        /\ Len(last.ret) = Min(last.top_k, Cardinality(collection))
        /\ collection = {} => last.ret = <<>>
        /\ \A i \in 1..Len(last.ret) :
              /\ last.ret[i].metadata.id \in CollectionIds(collection)
              /\ last.ret[i].content = StoredRecord(last.ret[i].metadata.id).document
        /\ \A i \in 1..(Len(last.ret) - 1) : DistanceOf(last.ret[i]) <= DistanceOf(last.ret[i + 1])
        /\ last.op = "retrieve" =>
              /\ \A i \in 1..Len(last.ret) : last.ret[i].score = 1 - DistanceOf(last.ret[i])
              /\ \A i \in 1..(Len(last.ret) - 1) : last.ret[i].score >= last.ret[i + 1].score

\* C8 witness: a query with top_k = 2 on three stored records returned two
\* of them, the nearer one first.
C8_Witness ==
    /\ last.op = "query" /\ last.top_k = 2
    /\ Cardinality(collection) = 3
    /\ Len(last.ret) = 2
    /\ DistanceOf(last.ret[1]) < DistanceOf(last.ret[2])

\* C9 (as claimed): a failure below retrieve other than GenerationFailed or
\* StorageUnavailable ends in the empty hit list and no exception;
\* GenerationFailed and StorageUnavailable reach the caller.
C9_OtherFailuresDegradeToEmpty ==
    (last.op = "retrieve" /\ last.arg \notin {""} \cup WhitespaceOnly) =>
        /\ last.fault \in {"GenerationFailed", "StorageUnavailable"} => last.raised = last.fault
        /\ last.fault \notin {None, "GenerationFailed", "StorageUnavailable"} =>
              (last.raised = None /\ last.ret = <<>>)

\* The file of the chunk at a position of the pipeline's chunk list
FileAt(position) == IF position <= files["a.txt"] THEN "a.txt" ELSE "b.txt"

\* C10: once a run has persisted a record of file F (all of F's chunks or,
\* after a failed add, only some), file_exists(F) is true from then on, every
\* later run filters all chunks of F out of new_chunks, and no later run
\* inserts a chunk of F: all records of F come from one run.
C10_PartialFileNeverCompleted ==
    /\ \A h \in history : VectorStore_file_exists(collection, h.source_file).ret
    /\ \A h1, h2 \in history : h1.source_file = h2.source_file => h1.run = h2.run
    /\ last.op = "pipeline" =>
          \A h \in history :
              h.run < run =>
                  \A j \in 1..Len(last.new_chunks) : FileAt(last.new_chunks[j]) # h.source_file

\* C10 witness: the first run persisted some but not all chunks of a.txt, and
\* a later run has ended without error and without adding the missing ones.
C10_Witness ==
    /\ last.op = "pipeline" /\ last.raised = None /\ run >= 2
    /\ \E h \in history : h.source_file = "a.txt" /\ h.run = 1
    /\ Cardinality({h \in history : h.source_file = "a.txt"}) < files["a.txt"]
    /\ \E h \in history : h.source_file = "b.txt" /\ h.run = run

\* Every chunk of every file is stored exactly once: each position of the
\* chunk list has one record, with the chunk's text and file, and the
\* collection holds nothing else.
EveryChunkStoredOnce(hist, coll) ==
    /\ \A p \in 1..(files["a.txt"] + files["b.txt"]) :
          /\ Cardinality({h \in hist : h.position = p}) = 1
          /\ \E h \in hist :
                /\ h.position = p
                /\ \E r \in coll :
                      /\ r.id = h.id
                      /\ r.document = TextAt(p)
                      /\ r.metadata.source_file = FileAt(p)
    /\ Cardinality(coll) = files["a.txt"] + files["b.txt"]
    /\ CollectionIds(coll) = {h.id : h \in hist}

\* C11: over runs of the pipeline on the same files, from an empty collection:
\* a first run that ends without error leaves every chunk of every file stored
\* exactly once (the filter sees the collection as it is before the add, so no
\* chunk is dropped for a sibling inserted in the same run); and once every
\* chunk is stored, a further run keeps no chunk, makes no embedding call for
\* indexing and no add call, raises nothing, and leaves the collection as it is.
C11_IdempotentReindexing ==
    [][ /\ (run = 0 /\ collection = {} /\ last'.op = "pipeline" /\ last'.raised = None) =>
              /\ EveryChunkStoredOnce(history', collection')
              /\ last'.new_chunks = [j \in 1..(files["a.txt"] + files["b.txt"]) |-> j]
              /\ \A h \in history' : h.run = 1
        /\ (run >= 1 /\ EveryChunkStoredOnce(history, collection) /\ last'.op = "pipeline") =>
              /\ last'.new_chunks = <<>>
              /\ last'.indexEmbedCalls = 0
              /\ last'.addCalls = <<>>
              /\ last'.raised = None
              /\ collection' = collection
              /\ history' = history
              /\ nextUuid' = nextUuid
      ]_vars

\* C11 witness: both files have several chunks, the first run stored them all,
\* and a later run has ended having indexed nothing.
C11_Witness ==
    /\ files["a.txt"] >= 2 /\ files["b.txt"] >= 2
    /\ run >= 2 /\ last.op = "pipeline" /\ last.raised = None
    /\ last.new_chunks = <<>> /\ last.addCalls = <<>> /\ last.indexEmbedCalls = 0
    /\ EveryChunkStoredOnce(history, collection)
    /\ \A h \in history : h.run = 1

====
